---- MODULE Spec2Model ----
(***************************************************************************)
(* A model of wearabouts' resilient request layer (lib/utils.ts,           *)
(* fetchWithRetry), of the location resolution route                       *)
(* (app/api/resolve/route.ts, POST and geocodeCandidates) and of the       *)
(* outfit route (app/api/generate-outfits/route.ts, generateOutfitItems,   *)
(* generateNotes and POST), and of the client hooks useForecast,           *)
(* useOutfitGenerator and useSearchWorkflow.selectCandidate.               *)
(*                                                                         *)
(* SpecFetch runs one call of fetchWithRetry against a remote end that     *)
(* answers, fails or stays silent until the timer aborts the attempt.      *)
(* SpecResolve runs one POST /api/resolve against an extractor and a       *)
(* geocoder that answer anything their interfaces allow.                   *)
(* SpecOutfits runs one POST /api/generate-outfits against a notes         *)
(* generator that answers with any list of notes or fails.                 *)
(* SpecClient runs the page's hooks: candidates are selected one after     *)
(* the other, and the responses to their requests arrive in any order.     *)
(***************************************************************************)
EXTENDS Integers, Sequences, FiniteSets, TLC

VARIABLES
    fopts,          \* fetchWithRetry: the destructured retryOptions
    fattempt,       \* fetchWithRetry: the loop variable `attempt`
    fpc,            \* fetchWithRetry: where the call is suspended
    felapsed,       \* fetchWithRetry: ticks since the attempt's timer was armed
    lastError,      \* fetchWithRetry: `lastError`
    lastResponse,   \* fetchWithRetry: `lastResponse`
    flog,           \* fetchWithRetry: one record per finished attempt (the console.warn trail)
    fresult,        \* fetchWithRetry: what the call returned or threw
    rbody,          \* resolve: the request body
    rpc,            \* resolve: where POST is suspended
    attempt,        \* resolve: `attempt`
    geocoded,       \* resolve: `geocoded`
    attemptedLocations, \* resolve: `attemptedLocations`
    candidates,     \* resolve: `candidates` of the running attempt
    cidx,           \* geocodeCandidates: the position of the `for (const c of candidates)` loop
    results,        \* geocodeCandidates: `results`
    prompts,        \* resolve: the prompts handed to generateText, one per call
    chist,          \* resolve: the candidates of each attempt, after the fallback
    ghist,          \* resolve: what geocodeCandidates returned in each attempt
    uhist,          \* resolve: whether generateText's result held candidates, per attempt
    rresponse,      \* resolve: the NextResponse sent
    obody,          \* generate-outfits: the request body
    opc,            \* generate-outfits: where POST is suspended
    temperatureBands,   \* generate-outfits: the module's `temperatureBands`
    personaAdjustments, \* generate-outfits: the module's `personaAdjustments`
    ocalls,         \* generate-outfits: the calls of generateOutfitItems, in order
    outfitDays,     \* generate-outfits: `outfitDays`
    onotes,         \* generate-outfits: what generateNotes returned
    oresponse,      \* generate-outfits: the NextResponse sent
    mounted,        \* client: the page that uses useSearchWorkflow is rendered
    forecast,       \* useForecast: the state `forecast`
    loadingForecast,    \* useForecast: the state `loading`
    forecastError,  \* useForecast: the state `error`
    generatedOutfits,   \* useOutfitGenerator: the state `outfits`
    loadingOutfits, \* useOutfitGenerator: the state `loading`
    outfitError,    \* useOutfitGenerator: the state `error`
    requests        \* client: the calls of selectCandidate, in order, each with
                    \* where it is suspended and what its requests were answered

fvars == <<fopts, fattempt, fpc, felapsed, lastError, lastResponse, flog, fresult>>

rvars == <<rbody, rpc, attempt, geocoded, attemptedLocations, candidates, cidx,
           results, prompts, chist, ghist, uhist, rresponse>>

ovars == <<obody, opc, temperatureBands, personaAdjustments, ocalls, outfitDays,
           onotes, oresponse>>

cvars == <<mounted, forecast, loadingForecast, forecastError, generatedOutfits,
           loadingOutfits, outfitError, requests>>

vars == <<fvars, rvars, ovars, cvars>>

\* what a step of fetchWithRetry leaves alone
notFetch == <<rvars, ovars, cvars>>

\* what a step of the resolve route leaves alone
notResolve == <<fvars, ovars, cvars>>

\* what a step of the outfit route leaves alone
notOutfits == <<fvars, rvars, cvars>>

\* what a step of the client hooks leaves alone
notClient == <<fvars, rvars, ovars>>

----------------------------------------------------------------------------
(* Bounds of the model *)

\* the largest maxRetries a caller passes
MaxRetriesBound == 3

\* the per-attempt timeout, in clock ticks
TimeoutTicks == 2

----------------------------------------------------------------------------
(* The resolve route before a request arrives *)

NoReply == [status |-> 0, place |-> <<>>, candidates |-> <<>>, attemptedLocations |-> <<>>]

ResolveIdle ==
    /\ rbody = [kind |-> "none", query |-> <<>>]
    /\ rpc = "idle"
    /\ attempt = 0
    /\ geocoded = <<>>
    /\ attemptedLocations = <<>>
    /\ candidates = <<>>
    /\ cidx = 0
    /\ results = <<>>
    /\ prompts = <<>>
    /\ chist = <<>>
    /\ ghist = <<>>
    /\ uhist = <<>>
    /\ rresponse = NoReply

----------------------------------------------------------------------------
(* The outfit route before a request arrives *)

\* const temperatureBands = [...]
BandTable ==
    << [max |-> 40, items |-> <<"insulated coat", "thermal base layer", "beanie",
                                "warm socks", "insulated boots">>],
       [max |-> 55, items |-> <<"sweater", "medium jacket", "jeans", "closed shoes">>],
       [max |-> 72, items |-> <<"tee or long-sleeve", "light layer", "pants or jeans">>],
       [max |-> 84, items |-> <<"breathable tee", "light pants or shorts",
                                "comfortable shoes">>],
       [max |-> 200, items |-> <<"ultra-light top", "linen or tech shorts",
                                 "breathable shoes">>] >>

\* a mutant of AdjustmentTable: outdoorsy turns the comfortable shoes into an
\* item the rain adds
AdjustmentTableColliding ==
    [persona \in {"minimal", "outdoorsy", "street", "business"} |->
        CASE persona = "minimal" ->
                { <<"medium jacket", "versatile jacket">>,
                  <<"light layer", "simple cardigan">>,
                  <<"breathable tee", "plain tee">> }
          [] persona = "outdoorsy" ->
                { <<"medium jacket", "technical fleece">>,
                  <<"light layer", "packable vest">>,
                  <<"comfortable shoes", "water-resistant shoes">>,
                  <<"breathable shoes", "hiking sandals">> }
          [] persona = "street" ->
                { <<"medium jacket", "bomber or denim jacket">>,
                  <<"beanie", "stylish cap">>,
                  <<"comfortable shoes", "sneakers">>,
                  <<"light pants", "cargo pants">> }
          [] persona = "business" ->
                { <<"tee or long-sleeve", "button-up shirt">>,
                  <<"light pants or shorts", "chinos">>,
                  <<"comfortable shoes", "loafers or oxfords">>,
                  <<"ultra-light top", "linen shirt">> }]

\* const personaAdjustments = {...}: per persona, the replacements as pairs
AdjustmentTable ==
    [persona \in {"minimal", "outdoorsy", "street", "business"} |->
        CASE persona = "minimal" ->
                { <<"medium jacket", "versatile jacket">>,
                  <<"light layer", "simple cardigan">>,
                  <<"breathable tee", "plain tee">> }
          [] persona = "outdoorsy" ->
                { <<"medium jacket", "technical fleece">>,
                  <<"light layer", "packable vest">>,
                  <<"comfortable shoes", "trail shoes">>,
                  <<"breathable shoes", "hiking sandals">> }
          [] persona = "street" ->
                { <<"medium jacket", "bomber or denim jacket">>,
                  <<"beanie", "stylish cap">>,
                  <<"comfortable shoes", "sneakers">>,
                  <<"light pants", "cargo pants">> }
          [] persona = "business" ->
                { <<"tee or long-sleeve", "button-up shirt">>,
                  <<"light pants or shorts", "chinos">>,
                  <<"comfortable shoes", "loafers or oxfords">>,
                  <<"ultra-light top", "linen shirt">> }]

NoNotes == [failed |-> FALSE, notes |-> <<>>]

NoOutfitReply == [status |-> 0, outfits |-> <<>>]

OutfitsIdle ==
    /\ obody = [kind |-> "none", days |-> <<>>, persona |-> ""]
    /\ opc = "idle"
    /\ temperatureBands = BandTable
    /\ personaAdjustments = AdjustmentTable
    /\ ocalls = <<>>
    /\ outfitDays = <<>>
    /\ onotes = NoNotes
    /\ oresponse = NoOutfitReply

----------------------------------------------------------------------------
(* The client hooks before the page is rendered *)

\* useState<DayForecast[] | null>(null)
NoForecast == [set |-> FALSE, of |-> "", days |-> 0]

\* useState<DayAdvice[] | null>(null)
NoOutfits == [set |-> FALSE, of |-> ""]

\* the initial state of useForecast and useOutfitGenerator
HooksFresh ==
    /\ forecast = NoForecast
    /\ loadingForecast = FALSE
    /\ forecastError = FALSE
    /\ generatedOutfits = NoOutfits
    /\ loadingOutfits = FALSE
    /\ outfitError = FALSE
    /\ requests = <<>>

ClientIdle == mounted = FALSE /\ HooksFresh

----------------------------------------------------------------------------
(* lib/utils.ts: fetchWithRetry *)

\* the HTTP statuses the remote end answers with
Statuses == {200, 304, 404, 429, 500}

DefaultInitialDelay == 1000
GeocodeInitialDelay == 500
DefaultMaxDelay == 16000

InitialDelays == {GeocodeInitialDelay, DefaultInitialDelay}
MaxDelays == {1500, DefaultMaxDelay}

\* the retry predicates a caller passes: the default, and two custom ones
RetryPredicates == {"default", "never", "always"}

\* `null` for a Response and for an Error
NoResponse == [id |-> -1, status |-> 0]
NoError == [name |-> "none", at |-> -1]

\* Response.ok
IsOk(status) == status >= 200 /\ status <= 299

\* a mutant of defaultRetryOn: status 500 itself is not retried
defaultRetryOnAbove500(response, error) ==
    IF error # NoError THEN TRUE
    ELSE IF response # NoResponse
         THEN response.status > 500 \/ response.status = 429
         ELSE FALSE

defaultRetryOn(response, error) ==
    IF error # NoError THEN TRUE
    ELSE IF response # NoResponse
         THEN response.status >= 500 \/ response.status = 429
         ELSE FALSE

\* the call retryOn(response, error) for the predicate the caller passed
RetryOn(pred, response, error) ==
    CASE pred = "default" -> defaultRetryOn(response, error)
      [] pred = "never" -> FALSE
      [] pred = "always" -> TRUE

RECURSIVE Pow2(_)
\* Math.pow(2, k)
Pow2(k) == IF k <= 0 THEN 1 ELSE 2 * Pow2(k - 1)

\* Math.min
MathMin(a, b) == IF a <= b THEN a ELSE b

\* a mutant of BackoffDelay: the delay grows linearly, not exponentially
BackoffDelayLinear(opts, k) ==
    MathMin(opts.initialDelay * (k + 1), opts.maxDelay)

\* const delay = Math.min(initialDelay * Math.pow(2, k), maxDelay)
BackoffDelay(opts, k) ==
    MathMin(opts.initialDelay * Pow2(k), opts.maxDelay)

\* const actualDelay = response.status === 429 ? delay * 2 : delay
ActualDelay(status, delay) == IF status = 429 THEN delay * 2 ELSE delay

\* the branch taken after a response: retry (sleep, continue) or return it
OnResponse(opts, k, response) ==
    [retry |-> /\ ~IsOk(response.status)
               /\ RetryOn(opts.retryOn, response, NoError)
               /\ k < opts.maxRetries,
     delay |-> ActualDelay(response.status, BackoffDelay(opts, k)),
     asked |-> IF IsOk(response.status) THEN "none" ELSE "response"]

\* a mutant of OnError: an aborted (timed out) attempt is thrown at once
OnErrorAbortNotRetried(opts, k, error) ==
    [retry |-> /\ error.name # "AbortError"
               /\ RetryOn(opts.retryOn, NoResponse, error)
               /\ k < opts.maxRetries,
     delay |-> BackoffDelay(opts, k),
     asked |-> "error"]

\* a mutant of OnError: the last attempt's error is retried as well
OnErrorRetriesLastAttempt(opts, k, error) ==
    [retry |-> RetryOn(opts.retryOn, NoResponse, error),
     delay |-> BackoffDelay(opts, k),
     asked |-> "error"]

\* the branch taken in the catch block: retry (sleep, continue) or rethrow
OnError(opts, k, error) ==
    [retry |-> RetryOn(opts.retryOn, NoResponse, error) /\ k < opts.maxRetries,
     delay |-> BackoffDelay(opts, k),
     asked |-> "error"]

\* a mutant of ReturnedResponse: the saved response is returned instead
ReturnedResponseSaved(response, saved) == saved

\* `return response` of the loop body
ReturnedResponse(response, saved) == response

NoResult == [kind |-> "none", response |-> NoResponse, error |-> NoError]

FetchInit ==
    /\ fopts \in [maxRetries : -1..MaxRetriesBound,
                  initialDelay : InitialDelays,
                  maxDelay : MaxDelays,
                  timeout : {TimeoutTicks},
                  retryOn : RetryPredicates]
    /\ fattempt = 0
    /\ fpc = IF fopts.maxRetries >= 0 THEN "fetching" ELSE "afterloop"
    /\ felapsed = 0
    /\ lastError = NoError
    /\ lastResponse = NoResponse
    /\ flog = <<>>
    /\ fresult = NoResult
    /\ ResolveIdle
    /\ OutfitsIdle
    /\ ClientIdle

\* time passes while fetch() is pending and the timer has not fired
Tick ==
    /\ fpc = "fetching"
    /\ felapsed < fopts.timeout
    /\ felapsed' = felapsed + 1
    /\ UNCHANGED <<fopts, fattempt, fpc, lastError, lastResponse, flog, fresult>>
    /\ UNCHANGED notFetch

\* the continuation of `await fetch(...)` when it resolves with a response
FetchResponds ==
    /\ fpc = "fetching"
    /\ \E s \in Statuses :
         LET response == [id |-> fattempt, status |-> s]
             br == OnResponse(fopts, fattempt, response)
         IN  IF br.retry
             THEN /\ lastResponse' = response
                  /\ flog' = Append(flog, [attempt |-> fattempt, response |-> response,
                                           error |-> NoError, asked |-> br.asked,
                                           decision |-> "sleep", delay |-> br.delay])
                  /\ fpc' = "sleeping"
                  /\ fresult' = fresult
             ELSE /\ lastResponse' = lastResponse
                  /\ flog' = Append(flog, [attempt |-> fattempt, response |-> response,
                                           error |-> NoError, asked |-> br.asked,
                                           decision |-> "return", delay |-> 0])
                  /\ fpc' = "returned"
                  /\ fresult' = [kind |-> "return",
                                 response |-> ReturnedResponse(response, lastResponse),
                                 error |-> NoError]
    /\ felapsed' = 0
    /\ UNCHANGED <<fopts, fattempt, lastError>>
    /\ UNCHANGED notFetch

\* the catch block, entered with `error`
Catch(error) ==
    LET br == OnError(fopts, fattempt, error)
    IN  /\ lastError' = error
        /\ IF br.retry
           THEN /\ flog' = Append(flog, [attempt |-> fattempt, response |-> NoResponse,
                                         error |-> error, asked |-> br.asked,
                                         decision |-> "sleep", delay |-> br.delay])
                /\ fpc' = "sleeping"
                /\ fresult' = fresult
           ELSE /\ flog' = Append(flog, [attempt |-> fattempt, response |-> NoResponse,
                                         error |-> error, asked |-> br.asked,
                                         decision |-> "throw", delay |-> 0])
                /\ fpc' = "thrown"
                /\ fresult' = [kind |-> "throw", response |-> NoResponse, error |-> error]
        /\ felapsed' = 0
        /\ UNCHANGED <<fopts, fattempt, lastResponse>>
        /\ UNCHANGED notFetch

\* fetch() rejects with a transport error
FetchFails ==
    /\ fpc = "fetching"
    /\ Catch([name |-> "TypeError", at |-> fattempt])

\* the timer fires: controller.abort() makes fetch() reject with an AbortError
TimeoutFires ==
    /\ fpc = "fetching"
    /\ felapsed = fopts.timeout
    /\ Catch([name |-> "AbortError", at |-> fattempt])

\* the backoff sleep ends: `continue`, attempt++, the loop condition
SleepEnds ==
    /\ fpc = "sleeping"
    /\ fattempt' = fattempt + 1
    /\ fpc' = IF fattempt + 1 <= fopts.maxRetries THEN "fetching" ELSE "afterloop"
    /\ UNCHANGED <<fopts, felapsed, lastError, lastResponse, flog, fresult>>
    /\ UNCHANGED notFetch

\* the statements after the loop
AfterLoop ==
    /\ fpc = "afterloop"
    /\ IF lastResponse # NoResponse
       THEN /\ fresult' = [kind |-> "return", response |-> lastResponse, error |-> NoError]
            /\ fpc' = "returned"
       ELSE /\ fresult' = [kind |-> "throw", response |-> NoResponse,
                           error |-> IF lastError # NoError THEN lastError
                                     ELSE [name |-> "Error", at |-> -1]]
            /\ fpc' = "thrown"
    /\ UNCHANGED <<fopts, fattempt, felapsed, lastError, lastResponse, flog>>
    /\ UNCHANGED notFetch

FetchNext ==
    \/ Tick
    \/ FetchResponds
    \/ FetchFails
    \/ TimeoutFires
    \/ SleepEnds
    \/ AfterLoop

SpecFetch == FetchInit /\ [][FetchNext]_vars

\* the same, with the event loop running whatever is due: a pending fetch()
\* settles or its timer fires, a sleep ends, a continuation runs
SpecFetchLive == FetchInit /\ [][FetchNext]_vars /\ WF_vars(FetchNext)

----------------------------------------------------------------------------
(* app/api/resolve/route.ts: POST and geocodeCandidates *)

\* the most candidates the extractor returns in one call
MaxCandidates == 2

MaxAttempts == 3
PrimaryConfidence == 9
SecondaryConfidence == 6
MaxAlternates == 4
SecondaryLimit == 3

FetchIdle ==
    /\ fopts = [maxRetries |-> 0, initialDelay |-> GeocodeInitialDelay,
                maxDelay |-> DefaultMaxDelay, timeout |-> TimeoutTicks,
                retryOn |-> "default"]
    /\ fattempt = 0
    /\ fpc = "idle"
    /\ felapsed = 0
    /\ lastError = NoError
    /\ lastResponse = NoResponse
    /\ flog = <<>>
    /\ fresult = NoResult

(* Strings.  A query or a place name is a sequence of lexemes, each a word or
   a run of delimiters; a region or country is a sequence of characters; null,
   undefined and "" (all falsy, all without a match) are the empty sequence. *)

IsDelimiter(lexeme) == lexeme \in {" ", ","}

\* String.prototype.toLowerCase, on the letters the model uses
LowerChar(c) ==
    CASE c = "U" -> "u" [] c = "S" -> "s" [] c = "A" -> "a" [] c = "F" -> "f"
      [] c = "R" -> "r" [] c = "D" -> "d" [] c = "E" -> "e" [] c = "T" -> "t"
      [] c = "X" -> "x" [] c = "N" -> "n" [] c = "Y" -> "y" [] c = "G" -> "g"
      [] OTHER -> c

ToLowerCase(str) == [i \in 1..Len(str) |-> LowerChar(str[i])]

\* String.prototype.includes
Includes(str, part) ==
    \E i \in 0..(Len(str) - Len(part)) : SubSeq(str, i + 1, i + Len(part)) = part

\* query.split(/[,\s]+/)[0]
FirstSplit(query) ==
    IF Len(query) = 0 \/ IsDelimiter(query[1]) THEN <<>> ELSE <<query[1]>>

\* a mutant of FallbackName: the whole query, always
FallbackNameWholeQuery(query) == query

\* query.split(/[,\s]+/)[0] || query
FallbackName(query) == IF FirstSplit(query) = <<>> THEN query ELSE FirstSplit(query)

(* Numbers.  A coordinate is a number of 1/10000 degrees, or NaN. *)

Num(v) == [nan |-> FALSE, v |-> v]
NaN == [nan |-> TRUE, v |-> 0]

\* typeof raw.latitude === "number" ? raw.latitude : Number(raw.latitude)
Coerce(field) ==
    CASE field.t = "number" -> Num(field.v)
      [] field.t = "string" -> Num(field.v)
      [] OTHER -> NaN

\* Number.prototype.toFixed(3): the sign, then the magnitude rounded to 1/1000
\* ("-0.000" for a negative value that rounds to zero).  No coordinate of the
\* model lies halfway between two thousandths.
ToFixed3(x) ==
    IF x.nan THEN [nan |-> TRUE, neg |-> FALSE, n |-> 0]
    ELSE LET mag == IF x.v < 0 THEN -x.v ELSE x.v
         IN  [nan |-> FALSE, neg |-> x.v < 0, n |-> (mag + 5) \div 10]

\* `${r.lat.toFixed(3)},${r.lon.toFixed(3)}`
DedupKey(r) == <<ToFixed3(r.lat), ToFixed3(r.lon)>>

(* The geocoder's rows *)

Number(v) == [t |-> "number", v |-> v]
Undefined == [t |-> "undefined", v |-> 0]
Text(v) == [t |-> "string", v |-> v]

America == <<"A", "m", "e", "r", "i", "c", "a">>
Row(name, admin1, country, code, lat, lon) ==
    [name |-> <<name>>, admin1 |-> admin1, country |-> country, country_code |-> code,
     latitude |-> lat, longitude |-> lon]

mNewYork == Row("new york", <<"N", "Y">>, America, <<"U", "S">>, Number(407128), Number(-740060))
mNewYork2 == Row("new york county", <<"N", "Y">>, America, <<"U", "S">>, Number(407130), Number(-740061))
mAlbany == Row("albany", <<"N", "Y">>, America, <<"U", "S">>, Number(426526), Number(-737562))
mParis == Row("paris", <<"I", "d", "f">>, <<"F", "r", "a">>, <<"F", "R">>, Number(488566), Number(23522))
mParisTx == Row("paris", <<"T", "e", "x", "a", "s">>, <<"U", "s", "a">>, <<>>, Number(336609), Number(-955551))
mBerlin == Row("berlin", <<>>, <<"G", "e", "r">>, <<"D", "E">>, Number(525244), Number(134105))
mNowhere == Row("nowhere", <<"N", "Y">>, America, <<"U", "S">>, Undefined, Number(-740060))
mNorth == Row("gulf north", <<>>, <<>>, <<>>, Text(2), Text(11))
mSouth == Row("gulf south", <<>>, <<>>, <<>>, Number(-2), Number(11))

\* the `results` arrays the geocoder answers with (count=5 at most)
LookupBodies ==
    { <<>>,
      <<mNorth, mNewYork, mAlbany>>,
      <<mParis, mParisTx, mBerlin, mSouth>>,
      <<mAlbany, mNewYork2, mSouth, mNowhere>> }

(* The extractor's candidates *)

Cand(name, admin1, country) == [name |-> <<name>>, admin1 |-> admin1, country |-> country]

CandidateUniverse ==
    { Cand("new york", <<"n", "y">>, <<"u", "s">>),
      Cand("paris", <<>>, <<>>) }

RECURSIVE SeqsUpTo(_, _)
\* the sequences over S of length at most n
SeqsUpTo(S, n) ==
    IF n = 0 THEN {<<>>}
    ELSE LET shorter == SeqsUpTo(S, n - 1)
         IN  shorter \cup {Append(q, x) : q \in shorter, x \in S}

\* what generateText resolves with: no tool call, a tool call of another name,
\* or an extractPlaces call with `candidates` (undefined counts as empty)
ExtractorResults ==
    {[toolCalls |-> "none", candidates |-> <<>>],
     [toolCalls |-> "other", candidates |-> <<>>]}
    \cup {[toolCalls |-> "extractPlaces", candidates |-> cs] :
            cs \in SeqsUpTo(CandidateUniverse, MaxCandidates)}

\* the request bodies: unparsable, no query, a query that is no string, "", and queries
RequestBodies ==
    {[kind |-> "badjson", query |-> <<>>],
     [kind |-> "missing", query |-> <<>>],
     [kind |-> "number", query |-> <<>>],
     [kind |-> "string", query |-> <<>>],
     [kind |-> "string", query |-> <<"big", " ", "apple">>],
     [kind |-> "string", query |-> <<" ", "paris">>]}

\* a mutant of ValidRequest: min(1) is not asked of the query
ValidRequestAnyString(body) == body.kind = "string"

\* ResolveRequestSchema.parse(json) succeeds
ValidRequest(body) == body.kind = "string" /\ Len(body.query) >= 1

\* a mutant of PromptTier: the third attempt reuses the second tier's prompt
PromptTierTwoTiers(n) == IF n = 1 THEN 1 ELSE 2

\* the template getSystemPromptForAttempt and getUserPromptForAttempt pick
PromptTier(n) == IF n = 1 THEN 1 ELSE IF n = 2 THEN 2 ELSE 3

getSystemPromptForAttempt(n, failedLocations) ==
    [tier |-> PromptTier(n),
     failed |-> IF PromptTier(n) = 1 THEN <<>> ELSE failedLocations]

getUserPromptForAttempt(query, n, failedLocations) ==
    [tier |-> PromptTier(n), query |-> query,
     failed |-> IF PromptTier(n) = 1 THEN <<>> ELSE failedLocations]

\* the candidates taken from generateText's result
ExtractedCandidates(result) ==
    IF result.toolCalls = "extractPlaces" THEN result.candidates ELSE <<>>

\* the candidates of the attempt: the extracted ones, or the fallback
CandidatesOrFallback(extracted, query) ==
    IF Len(extracted) = 0
    THEN <<[name |-> FallbackName(query), admin1 |-> <<>>, country |-> <<>>]>>
    ELSE extracted

\* a mutant of NamesOf: only the first candidate's name is kept
NamesOfFirst(cs) == <<cs[1].name>>

\* candidates.map(c => c.name)
NamesOf(cs) == [i \in 1..Len(cs) |-> cs[i].name]

toResolvedPlace(raw, confidence) ==
    [name |-> raw.name, admin1 |-> raw.admin1, country |-> raw.country,
     lat |-> Coerce(raw.latitude), lon |-> Coerce(raw.longitude),
     confidence |-> confidence]

\* the filter by country/admin1
HintMatch(c, item) ==
    LET countryMatch == \/ c.country = <<>>
                        \/ /\ item.country # <<>>
                           /\ Includes(ToLowerCase(item.country), ToLowerCase(c.country))
                        \/ /\ item.country_code # <<>>
                           /\ ToLowerCase(item.country_code) = ToLowerCase(c.country)
        admin1Match == \/ c.admin1 = <<>>
                       \/ /\ item.admin1 # <<>>
                          /\ Includes(ToLowerCase(item.admin1), ToLowerCase(c.admin1))
    IN  countryMatch /\ admin1Match

FilterByHints(c, items) ==
    IF c.country # <<>> \/ c.admin1 # <<>>
    THEN SelectSeq(items, LAMBDA item : HintMatch(c, item))
    ELSE items

\* a mutant of PlacesOf: every surviving row is emitted, the first at 0.9
PlacesOfEverySurvivor(c, body) ==
    LET items == FilterByHints(c, body)
    IN  [i \in 1..Len(items) |->
            toResolvedPlace(items[i], IF i = 1 THEN PrimaryConfidence
                                      ELSE SecondaryConfidence)]

\* the places one candidate adds to `results`: the primary, then the alternates
PlacesOf(c, body) ==
    LET items == FilterByHints(c, body)
        last == MathMin(Len(items), SecondaryLimit)
    IN  IF Len(items) = 0 THEN <<>>
        ELSE <<toResolvedPlace(items[1], PrimaryConfidence)>>
             \o [i \in 1..(last - 1) |-> toResolvedPlace(items[i + 1], SecondaryConfidence)]

RECURSIVE DedupFrom(_, _)
DedupFrom(rs, seen) ==
    IF rs = <<>> THEN <<>>
    ELSE IF DedupKey(Head(rs)) \in seen
         THEN DedupFrom(Tail(rs), seen)
         ELSE <<Head(rs)>> \o DedupFrom(Tail(rs), seen \cup {DedupKey(Head(rs))})

\* a mutant of Deduplicate: of the places with one key the last is kept
DeduplicateKeepLast(rs) ==
    LET marked == [i \in 1..Len(rs) |->
                      [r |-> rs[i],
                       last |-> \A j \in (i + 1)..Len(rs) :
                                    DedupKey(rs[j]) # DedupKey(rs[i])]]
        kept == SelectSeq(marked, LAMBDA e : e.last)
    IN  [i \in 1..Len(kept) |-> kept[i].r]

\* a mutant of Deduplicate: nothing is filtered out
DeduplicateNothing(rs) == rs

\* Deduplicate by lat/lon
Deduplicate(rs) == DedupFrom(rs, {})

\* a mutant of CompareConfidence: ascending
CompareConfidenceAscending(a, b) == a.confidence - b.confidence

\* (a, b) => b.confidence - a.confidence
CompareConfidence(a, b) == b.confidence - a.confidence

\* a mutant of InsertSorted: x goes before the elements it ties with
InsertSortedUnstable(sorted, x) ==
    LET before == SelectSeq(sorted, LAMBDA e : CompareConfidence(e, x) < 0)
    IN  before \o <<x>> \o SubSeq(sorted, Len(before) + 1, Len(sorted))

\* x goes after every element that does not sort after it (a stable sort);
\* in a sorted list these elements are the head of the list
InsertSorted(sorted, x) ==
    LET before == SelectSeq(sorted, LAMBDA e : CompareConfidence(e, x) <= 0)
    IN  before \o <<x>> \o SubSeq(sorted, Len(before) + 1, Len(sorted))

RECURSIVE SortByConfidence(_)
\* geocoded.sort((a, b) => b.confidence - a.confidence)
SortByConfidence(rs) ==
    IF rs = <<>> THEN <<>>
    ELSE InsertSorted(SortByConfidence(SubSeq(rs, 1, Len(rs) - 1)), rs[Len(rs)])

RECURSIVE DistinctFrom(_, _)
DistinctFrom(names, seen) ==
    IF names = <<>> THEN <<>>
    ELSE IF Head(names) \in seen
         THEN DistinctFrom(Tail(names), seen)
         ELSE <<Head(names)>> \o DistinctFrom(Tail(names), seen \cup {Head(names)})

\* a mutant of DistinctNames: the list is sent as it is
DistinctNamesAsIs(names) == names

\* [...new Set(attemptedLocations)]
DistinctNames(names) == DistinctFrom(names, {})

\* ResolvedPlaceSchema.parse(p) succeeds
ValidPlace(p) ==
    /\ ~p.lat.nan
    /\ ~p.lon.nan
    /\ p.confidence >= 0
    /\ p.confidence <= 10

\* a mutant of LoopContinues: the loop runs on after a successful attempt
LoopContinuesRegardless(n, geo) == n < MaxAttempts

\* while (attempt < maxAttempts && geocoded.length === 0)
LoopContinues(n, geo) == n < MaxAttempts /\ Len(geo) = 0

\* the statements after the loop, for `geocoded` as the sort left it: the 404,
\* or the validated 200
Reply(sorted, attempted) ==
    IF Len(sorted) = 0
    THEN [status |-> 404, place |-> <<>>, candidates |-> <<>>,
          attemptedLocations |-> DistinctNames(attempted)]
    ELSE LET rest == Tail(sorted)
             alternates == SubSeq(rest, 1, MathMin(MaxAlternates, Len(rest)))
         IN  IF ValidPlace(Head(sorted))
                /\ \A i \in 1..Len(alternates) : ValidPlace(alternates[i])
             THEN [status |-> 200, place |-> <<Head(sorted)>>, candidates |-> alternates,
                   attemptedLocations |-> <<>>]
             ELSE [status |-> 400, place |-> <<>>, candidates |-> <<>>,
                   attemptedLocations |-> <<>>]

ErrorReply(status) ==
    [status |-> status, place |-> <<>>, candidates |-> <<>>, attemptedLocations |-> <<>>]

ResolveInit ==
    /\ rbody \in RequestBodies
    /\ rpc = "received"
    /\ attempt = 0
    /\ geocoded = <<>>
    /\ attemptedLocations = <<>>
    /\ candidates = <<>>
    /\ cidx = 0
    /\ results = <<>>
    /\ prompts = <<>>
    /\ chist = <<>>
    /\ ghist = <<>>
    /\ uhist = <<>>
    /\ rresponse = NoReply
    /\ FetchIdle
    /\ OutfitsIdle
    /\ ClientIdle

\* one turn of the loop head: the next attempt's generateText call, or the reply
LoopHead(n, geo, attempted) ==
    IF LoopContinues(n, geo)
    THEN /\ attempt' = n + 1
         /\ prompts' = Append(prompts,
                [system |-> getSystemPromptForAttempt(n + 1, attempted),
                 user |-> getUserPromptForAttempt(rbody.query, n + 1, attempted)])
         /\ rpc' = "extracting"
         /\ geocoded' = geo
         /\ rresponse' = rresponse
    ELSE /\ attempt' = n
         /\ prompts' = prompts
         /\ rpc' = "responded"
         /\ geocoded' = IF Len(geo) = 0 THEN geo ELSE SortByConfidence(geo)
         /\ rresponse' = Reply(geocoded', attempted)

\* req.json(), ResolveRequestSchema.parse, and the first turn of the loop
ReceiveRequest ==
    /\ rpc = "received"
    /\ IF rbody.kind = "badjson"
       THEN /\ rresponse' = ErrorReply(500)
            /\ rpc' = "responded"
            /\ UNCHANGED <<attempt, prompts, geocoded>>
       ELSE IF ~ValidRequest(rbody)
       THEN /\ rresponse' = ErrorReply(400)
            /\ rpc' = "responded"
            /\ UNCHANGED <<attempt, prompts, geocoded>>
       ELSE LoopHead(attempt, geocoded, attemptedLocations)
    /\ UNCHANGED <<rbody, attemptedLocations, candidates, cidx, results, chist, ghist,
                   uhist>>
    /\ UNCHANGED notResolve

\* generateText rejects: the outer catch answers 500
ExtractorThrows ==
    /\ rpc = "extracting"
    /\ rresponse' = ErrorReply(500)
    /\ rpc' = "responded"
    /\ UNCHANGED <<rbody, attempt, geocoded, attemptedLocations, candidates, cidx,
                   results, prompts, chist, ghist, uhist>>
    /\ UNCHANGED notResolve

\* generateText resolves: the candidates, the fallback, the names, and the
\* first lookup of geocodeCandidates
ExtractorReturns ==
    /\ rpc = "extracting"
    /\ \E result \in ExtractorResults :
         LET cs == CandidatesOrFallback(ExtractedCandidates(result), rbody.query)
         IN  /\ candidates' = cs
             /\ chist' = Append(chist, cs)
             /\ attemptedLocations' = attemptedLocations \o NamesOf(cs)
             /\ uhist' = Append(uhist, /\ result.toolCalls = "extractPlaces"
                                       /\ Len(result.candidates) > 0)
    /\ results' = <<>>
    /\ cidx' = 1
    /\ rpc' = "geocoding"
    /\ UNCHANGED <<rbody, attempt, geocoded, prompts, ghist, rresponse>>
    /\ UNCHANGED notResolve

\* the rest of geocodeCandidates' loop body for candidate cidx, with the places
\* it adds, and what follows the last candidate: dedup, return, the loop head
AfterLookup(added) ==
    LET all == results \o added
    IN  /\ results' = all
        /\ IF cidx < Len(candidates)
           THEN /\ cidx' = cidx + 1
                /\ UNCHANGED <<attempt, geocoded, prompts, ghist, rpc, rresponse>>
           ELSE /\ cidx' = 0
                /\ ghist' = Append(ghist, Deduplicate(all))
                /\ LoopHead(attempt, ghist'[Len(ghist) + 1], attemptedLocations)
        /\ UNCHANGED <<rbody, attemptedLocations, candidates, chist, uhist>>
        /\ UNCHANGED notResolve

\* a mutant of LookupFails: the error of one lookup ends the request
LookupFailsAborts ==
    /\ rpc = "geocoding"
    /\ rresponse' = ErrorReply(500)
    /\ rpc' = "responded"
    /\ cidx' = 0
    /\ UNCHANGED <<rbody, attempt, geocoded, attemptedLocations, candidates, results,
                   prompts, chist, ghist, uhist>>
    /\ UNCHANGED notResolve

\* fetchWithRetry throws, or res.json() throws: the inner catch
LookupFails ==
    /\ rpc = "geocoding"
    /\ AfterLookup(<<>>)

\* fetchWithRetry returns a response that is not ok
LookupNotOk ==
    /\ rpc = "geocoding"
    /\ \E s \in Statuses : ~IsOk(s)
    /\ AfterLookup(<<>>)

\* the geocoder answers with rows
LookupAnswers ==
    /\ rpc = "geocoding"
    /\ \E body \in LookupBodies : AfterLookup(PlacesOf(candidates[cidx], body))

ResolveNext ==
    \/ ReceiveRequest
    \/ ExtractorThrows
    \/ ExtractorReturns
    \/ LookupFails
    \/ LookupNotOk
    \/ LookupAnswers

SpecResolve == ResolveInit /\ [][ResolveNext]_vars

----------------------------------------------------------------------------
(* app/api/generate-outfits/route.ts *)

\* the longest `days` array of the requests that hold more than one day
MaxDays == 2

\* the longest `notes` array the notes generator answers with
MaxNotes == 3

Day(date, highF, lowF, precipChance, windMph, uvIndex) ==
    [date |-> date, highF |-> highF, lowF |-> lowF, precipChance |-> precipChance,
     windMph |-> windMph, uvIndex |-> uvIndex]

\* a cold dry day and a warm wet, windy, sunny day
ScenarioDays == {Day("d1", 30, 10, 10, 5, 2), Day("d2", 78, 60, 60, 20, 8)}

\* one day per high temperature, dry, calm and dull, the low 5 below the high;
\* a high above the last band's max has no band
SweepDays == {Day("d3", h, h - 5, 10, 5, 2) : h \in ((-50)..150) \cup {200, 201}}

\* the days on either side of each threshold
GridDays ==
    {Day("d4", h, l, p, w, u) :
        h \in {64, 65}, l \in {38, 39, 50, 51}, p \in {39, 40}, w \in {17, 18}, u \in {6, 7}}

\* one day per band, and one above the last band, with every additional item
WeatherDays == {Day("d5", h, 38, 60, 20, 8) : h \in {30, 50, 70, 80, 95, 201}}

\* the `days` arrays of the requests
DayLists ==
    {<<d>> : d \in SweepDays \cup GridDays \cup WeatherDays}
    \cup (SeqsUpTo(ScenarioDays, MaxDays) \ {<<>>})

\* persona is optional: "" stands for a request without it
Personas == {"", "minimal", "outdoorsy", "street", "business"}

\* the request bodies: unparsable, rejected by GenerateOutfitsRequestSchema, valid
OutfitBodies ==
    {[kind |-> "badjson", days |-> <<>>, persona |-> ""],
     [kind |-> "invalid", days |-> <<>>, persona |-> ""]}
    \cup {[kind |-> "valid", days |-> ds, persona |-> p] : ds \in DayLists, p \in Personas}

\* object.notes of a generateObject call that resolves (NotesResponseSchema: min(1))
NoteLists == SeqsUpTo({"", "layer up"}, MaxNotes) \ {<<>>}

\* a mutant of FindBand: the last band that holds the high
FindBandLast(bandsNow, highF) ==
    LET hits == {i \in 1..Len(bandsNow) : highF <= bandsNow[i].max}
    IN  IF hits = {} THEN 0 ELSE CHOOSE i \in hits : \A j \in hits : j <= i

\* temperatureBands.find(b => day.highF <= b.max): the index of the band, 0 for none
FindBand(bandsNow, highF) ==
    LET hits == {i \in 1..Len(bandsNow) : highF <= bandsNow[i].max}
    IN  IF hits = {} THEN 0 ELSE CHOOSE i \in hits : \A j \in hits : i <= j

\* band ? [...band.items] : ['comfortable clothes']
BaseItems(bandsNow, day) ==
    IF FindBand(bandsNow, day.highF) = 0
    THEN <<"comfortable clothes">>
    ELSE bandsNow[FindBand(bandsNow, day.highF)].items

\* a mutant of AdditionalItems: the shell needs more than 40
AdditionalItemsStrict(day) ==
    (IF day.precipChance > 40 THEN <<"waterproof shell", "water-resistant shoes">> ELSE <<>>)
    \o (IF day.windMph >= 18 THEN <<"windbreaker">> ELSE <<>>)
    \o (IF day.uvIndex >= 7 THEN <<"sun hat", "sunglasses", "sunscreen">> ELSE <<>>)
    \o (IF day.lowF <= 38 THEN <<"gloves", "warm scarf">> ELSE <<>>)
    \o (IF day.lowF <= 50 /\ day.highF >= 65 THEN <<"packable layer">> ELSE <<>>)

\* additionalItems after the five checks
AdditionalItems(day) ==
    (IF day.precipChance >= 40 THEN <<"waterproof shell", "water-resistant shoes">> ELSE <<>>)
    \o (IF day.windMph >= 18 THEN <<"windbreaker">> ELSE <<>>)
    \o (IF day.uvIndex >= 7 THEN <<"sun hat", "sunglasses", "sunscreen">> ELSE <<>>)
    \o (IF day.lowF <= 38 THEN <<"gloves", "warm scarf">> ELSE <<>>)
    \o (IF day.lowF <= 50 /\ day.highF >= 65 THEN <<"packable layer">> ELSE <<>>)

\* a mutant of Replaced: no item is replaced
ReplacedNever(replacements, item) == item

\* adjustments.replacements[item] || item
Replaced(replacements, item) ==
    IF \E pair \in replacements : pair[1] = item
    THEN (CHOOSE pair \in replacements : pair[1] = item)[2]
    ELSE item

generateOutfitItems(bandsNow, adjustmentsNow, day, persona) ==
    LET allItems == DistinctFrom(BaseItems(bandsNow, day) \o AdditionalItems(day), {})
    IN  IF persona # "" /\ persona \in DOMAIN adjustmentsNow
        THEN [i \in 1..Len(allItems) |-> Replaced(adjustmentsNow[persona], allItems[i])]
        ELSE allItems

\* a mutant of BandsAfterCall: baseItems is the band's own array and takes the
\* additional items
BandsAfterCallShared(bandsNow, day) ==
    [i \in 1..Len(bandsNow) |->
        IF i = FindBand(bandsNow, day.highF)
        THEN [max |-> bandsNow[i].max, items |-> bandsNow[i].items \o AdditionalItems(day)]
        ELSE bandsNow[i]]

\* temperatureBands after a call of generateOutfitItems: baseItems is a copy,
\* additionalItems and allItems are new arrays, nothing is written to a band
BandsAfterCall(bandsNow, day) == bandsNow

RECURSIVE MapDays(_, _, _, _)
\* days.map(day => ({..., items: generateOutfitItems(day, persona)})): the calls
\* in order, each on the tables as the calls before it left them
MapDays(days, persona, bandsNow, adjustmentsNow) ==
    IF days = <<>> THEN [calls |-> <<>>, bands |-> bandsNow]
    ELSE LET day == Head(days)
             call == [day |-> day, persona |-> persona,
                      base |-> BaseItems(bandsNow, day),
                      items |-> generateOutfitItems(bandsNow, adjustmentsNow, day, persona)]
             rest == MapDays(Tail(days), persona, BandsAfterCall(bandsNow, day),
                             adjustmentsNow)
         IN  [calls |-> <<call>> \o rest.calls, bands |-> rest.bands]

\* the fallback of generateNotes: one generic note per day
GenericNotes(days) == [i \in 1..Len(days) |-> "dress comfortably"]

\* notes[index] || undefined, as an optional field
NoteAt(notes, index) ==
    IF index <= Len(notes) /\ notes[index] # "" THEN <<notes[index]>> ELSE <<>>

\* a mutant of CombineOutfits: a day without a note is left out
CombineOutfitsNoted(days, notes) ==
    LET n == IF Len(notes) < Len(days) THEN Len(notes) ELSE Len(days)
    IN  [i \in 1..n |->
            [date |-> days[i].date, outfit |-> days[i].items, notes |-> NoteAt(notes, i)]]

\* outfitDays.map((day, index) => ({date, outfit: day.items, notes: notes[index] || undefined}))
CombineOutfits(days, notes) ==
    [i \in 1..Len(days) |->
        [date |-> days[i].date, outfit |-> days[i].items, notes |-> NoteAt(notes, i)]]

\* GenerateOutfitsResponseSchema.parse({ outfits }) succeeds: every entry is a
\* DayAdvice, notes being optional
ValidOutfits(outfits) ==
    \A i \in 1..Len(outfits) :
        /\ outfits[i].date \in STRING
        /\ Len(outfits[i].outfit) >= 0
        /\ Len(outfits[i].notes) <= 1

OutfitsInit ==
    /\ obody \in OutfitBodies
    /\ opc = "received"
    /\ temperatureBands = BandTable
    /\ personaAdjustments = AdjustmentTable
    /\ ocalls = <<>>
    /\ outfitDays = <<>>
    /\ onotes = NoNotes
    /\ oresponse = NoOutfitReply
    /\ FetchIdle
    /\ ResolveIdle
    /\ ClientIdle

\* req.json(), GenerateOutfitsRequestSchema.parse, days.map, and the call of
\* generateNotes
ReceiveOutfitsRequest ==
    /\ opc = "received"
    /\ IF obody.kind # "valid"
       THEN /\ oresponse' = [status |-> IF obody.kind = "badjson" THEN 500 ELSE 400,
                             outfits |-> <<>>]
            /\ opc' = "responded"
            /\ UNCHANGED <<temperatureBands, ocalls, outfitDays>>
       ELSE LET mapped == MapDays(obody.days, obody.persona, temperatureBands,
                                  personaAdjustments)
            IN  /\ ocalls' = mapped.calls
                /\ temperatureBands' = mapped.bands
                /\ outfitDays' = [i \in 1..Len(obody.days) |->
                                    [date |-> obody.days[i].date,
                                     highF |-> obody.days[i].highF,
                                     lowF |-> obody.days[i].lowF,
                                     precipChance |-> obody.days[i].precipChance,
                                     windMph |-> obody.days[i].windMph,
                                     uvIndex |-> obody.days[i].uvIndex,
                                     items |-> mapped.calls[i].items]]
                /\ opc' = "notes"
                /\ oresponse' = oresponse
    /\ UNCHANGED <<obody, personaAdjustments, onotes>>
    /\ UNCHANGED notOutfits

\* the statements after `await generateNotes(...)`
Respond(notes) ==
    LET outfits == CombineOutfits(outfitDays, notes)
    IN  /\ oresponse' = IF ValidOutfits(outfits)
                        THEN [status |-> 200, outfits |-> outfits]
                        ELSE [status |-> 400, outfits |-> <<>>]
        /\ opc' = "responded"
        /\ UNCHANGED <<obody, temperatureBands, personaAdjustments, ocalls, outfitDays>>
        /\ UNCHANGED notOutfits

\* generateObject resolves: generateNotes returns object.notes
NotesReturn ==
    /\ opc = "notes"
    /\ \E notes \in NoteLists :
          /\ onotes' = [failed |-> FALSE, notes |-> notes]
          /\ Respond(notes)

\* generateObject rejects: generateNotes returns the generic notes
NotesFail ==
    /\ opc = "notes"
    /\ onotes' = [failed |-> TRUE, notes |-> GenericNotes(outfitDays)]
    /\ Respond(GenericNotes(outfitDays))

OutfitsNext ==
    \/ ReceiveOutfitsRequest
    \/ NotesReturn
    \/ NotesFail

SpecOutfits == OutfitsInit /\ [][OutfitsNext]_vars

----------------------------------------------------------------------------
(* hooks/useForecast.ts, hooks/useOutfitGenerator.ts, hooks/useSearchWorkflow.ts *)

\* the most calls of selectCandidate in one run
MaxSelections == 3

\* the places the user can select
Places == {"A", "B"}

\* the length of `days` in an OK answer of /api/forecast
DayCounts == {0, 7}

\* the days the forecast route answers with for a place
ForecastOf(place, n) == [set |-> TRUE, of |-> place, days |-> n]

\* the outfits the outfit route answers with for a place and its days
OutfitsOf(place) == [set |-> TRUE, of |-> place]

ClientInit ==
    /\ mounted = TRUE
    /\ HooksFresh
    /\ FetchIdle
    /\ ResolveIdle
    /\ OutfitsIdle

\* selectCandidate(candidate), up to the `await fetch` of fetchForecast; the
\* effect's fetchForecast(...).then(...) for a resolved location does the same
SelectCandidate ==
    /\ mounted
    /\ Len(requests) < MaxSelections
    /\ \E place \in Places :
         requests' = Append(requests, [place |-> place, pc |-> "forecast",
                                       forecast |-> "pending", outfits |-> "none"])
    /\ loadingForecast' = TRUE
    /\ forecast' = NoForecast
    /\ forecastError' = FALSE
    /\ UNCHANGED <<mounted, generatedOutfits, loadingOutfits, outfitError>>
    /\ UNCHANGED notClient

\* /api/forecast answers request i OK: setForecast(json.days), the finally
\* block, `return json.days`, and in selectCandidate generateOutfits(candidate,
\* days) up to its `await fetch` when there are days
ForecastArrives ==
    \E i \in 1..Len(requests) :
        /\ requests[i].pc = "forecast"
        /\ \E n \in DayCounts :
             /\ forecast' = ForecastOf(requests[i].place, n)
             /\ IF n > 0
                THEN /\ requests' = [requests EXCEPT ![i].pc = "outfits",
                                                     ![i].forecast = "days",
                                                     ![i].outfits = "pending"]
                     /\ loadingOutfits' = TRUE
                     /\ generatedOutfits' = NoOutfits
                     /\ outfitError' = FALSE
                ELSE /\ requests' = [requests EXCEPT ![i].pc = "done",
                                                     ![i].forecast = "empty"]
                     /\ UNCHANGED <<generatedOutfits, loadingOutfits, outfitError>>
        /\ loadingForecast' = FALSE
        /\ UNCHANGED <<mounted, forecastError>>
        /\ UNCHANGED notClient

\* the request i of /api/forecast fails (fetch or res.json() rejects, or the
\* answer is not OK): the catch and the finally block, `return null`
ForecastFails ==
    \E i \in 1..Len(requests) :
        /\ requests[i].pc = "forecast"
        /\ requests' = [requests EXCEPT ![i].pc = "done", ![i].forecast = "failed"]
        /\ forecastError' = TRUE
        /\ loadingForecast' = FALSE
        /\ UNCHANGED <<mounted, forecast, generatedOutfits, loadingOutfits, outfitError>>
        /\ UNCHANGED notClient

\* /api/generate-outfits answers request i OK: setOutfits(json.outfits), the
\* finally block
OutfitsArrive ==
    \E i \in 1..Len(requests) :
        /\ requests[i].pc = "outfits"
        /\ requests' = [requests EXCEPT ![i].pc = "done", ![i].outfits = "outfits"]
        /\ generatedOutfits' = OutfitsOf(requests[i].place)
        /\ loadingOutfits' = FALSE
        /\ UNCHANGED <<mounted, forecast, loadingForecast, forecastError, outfitError>>
        /\ UNCHANGED notClient

\* the request i of /api/generate-outfits fails: the catch and the finally block
OutfitsFail ==
    \E i \in 1..Len(requests) :
        /\ requests[i].pc = "outfits"
        /\ requests' = [requests EXCEPT ![i].pc = "done", ![i].outfits = "failed"]
        /\ outfitError' = TRUE
        /\ loadingOutfits' = FALSE
        /\ UNCHANGED <<mounted, forecast, loadingForecast, forecastError, generatedOutfits>>
        /\ UNCHANGED notClient

ClientNext ==
    \/ SelectCandidate
    \/ ForecastArrives
    \/ ForecastFails
    \/ OutfitsArrive
    \/ OutfitsFail

SpecClient == ClientInit /\ [][ClientNext]_vars

----------------------------------------------------------------------------
(* Properties of fetchWithRetry *)

\* the attempts that received a response
Received == {i \in 1..Len(flog) : flog[i].response # NoResponse}

SetMax(S) == CHOOSE x \in S : \A y \in S : y <= x

FetchEnded == fpc \in {"returned", "thrown"}

\* C1: once the max_retries + 1 attempts are used up, the call returns the last
\* response any attempt received if there is one, and throws the last transport
\* error only when no attempt received a response.
C1_ExhaustedReturnsLastResponse ==
    (FetchEnded /\ fopts.maxRetries >= 0 /\ Len(flog) = fopts.maxRetries + 1) =>
        IF Received # {}
        THEN /\ fresult.kind = "return"
             /\ fresult.response = flog[SetMax(Received)].response
        ELSE /\ fresult.kind = "throw"
             /\ fresult.error = flog[Len(flog)].error

\* C2: the sleep after failed attempt k is min(initial_delay * 2^k, max_delay),
\* doubled once (after the cap) when the attempt's response had status 429, and
\* not doubled after a transport error or another retryable status.
C2_BackoffDelayFormula ==
    \A i \in 1..Len(flog) :
        flog[i].decision = "sleep" =>
            LET k == flog[i].attempt
                raw == fopts.initialDelay * (2 ^ k)
                capped == IF raw < fopts.maxDelay THEN raw ELSE fopts.maxDelay
            IN  /\ k = i - 1
                /\ flog[i].delay = IF flog[i].response # NoResponse
                                      /\ flog[i].response.status = 429
                                   THEN 2 * capped
                                   ELSE capped

\* C2 witness: a 429 answered attempt 2 whose exponential delay exceeded the cap
C2_Witness ==
    \E i \in 1..Len(flog) :
        /\ flog[i].decision = "sleep"
        /\ flog[i].attempt = 2
        /\ flog[i].response.status = 429
        /\ fopts.initialDelay * 4 > fopts.maxDelay
        /\ flog[i].delay = 2 * fopts.maxDelay

\* what the caller's predicate answers for an error, whatever the error is
PredicateRetriesErrors == fopts.retryOn \in {"default", "always"}

\* C3: an attempt never outlives timeout_ms; an attempt the timer aborted is
\* handled as a transport error of that attempt: the predicate is asked with
\* the error, the attempt is retried after the plain backoff while attempts
\* remain, and the error is thrown when it was the last attempt.
C3_TimeoutIsTransportError ==
    /\ felapsed <= fopts.timeout
    /\ \A i \in 1..Len(flog) :
        flog[i].error.name = "AbortError" =>
            LET k == flog[i].attempt
                raw == fopts.initialDelay * (2 ^ k)
                capped == IF raw < fopts.maxDelay THEN raw ELSE fopts.maxDelay
            IN  /\ flog[i].asked = "error"
                /\ flog[i].response = NoResponse
                /\ IF PredicateRetriesErrors /\ k < fopts.maxRetries
                   THEN flog[i].decision = "sleep" /\ flog[i].delay = capped
                   ELSE /\ flog[i].decision = "throw"
                        /\ i = Len(flog)
                        /\ fresult = [kind |-> "throw", response |-> NoResponse,
                                      error |-> flog[i].error]

\* C3 witness: a timed out attempt was retried and the last attempt timed out too
C3_Witness ==
    /\ fpc = "thrown"
    /\ Len(flog) = fopts.maxRetries + 1
    /\ Len(flog) >= 2
    /\ flog[1].error.name = "AbortError"
    /\ flog[1].decision = "sleep"
    /\ fresult.error.name = "AbortError"

\* C4: with the default predicate and attempts remaining, an attempt is retried
\* iff it raised an error or answered with a status >= 500 or 429; any other
\* response is returned at once, with no sleep and no further fetch.
C4_DefaultRetryIff ==
    fopts.retryOn = "default" =>
        \A i \in 1..Len(flog) :
            flog[i].attempt < fopts.maxRetries =>
                LET retryable == \/ flog[i].error # NoError
                                 \/ /\ flog[i].response # NoResponse
                                    /\ \/ flog[i].response.status >= 500
                                       \/ flog[i].response.status = 429
                IN  /\ (flog[i].decision = "sleep") <=> retryable
                    /\ ~retryable =>
                          /\ flog[i].decision = "return"
                          /\ flog[i].delay = 0
                          /\ i = Len(flog)
                          /\ fpc = "returned"
                          /\ fresult.kind = "return"
                          /\ fresult.response = flog[i].response

\* C4 witness: a 500 was retried and the next attempt's 404 was returned at once
C4_Witness ==
    /\ fopts.retryOn = "default"
    /\ fopts.maxRetries = 3
    /\ Len(flog) = 2
    /\ flog[1].response.status = 500
    /\ flog[1].decision = "sleep"
    /\ flog[2].response.status = 404
    /\ fpc = "returned"

\* C5: a returned Response is one an attempt of this call received, unchanged;
\* an OK response is returned only when an attempt received an OK response.
C5_NeverSynthesizesSuccess ==
    fresult.kind = "return" =>
        /\ fresult.response # NoResponse
        /\ \E i \in 1..Len(flog) : flog[i].response = fresult.response
        /\ IsOk(fresult.response.status) =>
              \E i \in 1..Len(flog) : IsOk(flog[i].response.status)

\* C5 witness: the budget ran out and the last attempt's non-OK response came back
C5_Witness ==
    /\ fresult.kind = "return"
    /\ ~IsOk(fresult.response.status)
    /\ fopts.maxRetries >= 1
    /\ Len(flog) = fopts.maxRetries + 1
    /\ fresult.response.id = fopts.maxRetries

----------------------------------------------------------------------------
(* Properties of the resolve route *)

\* the places of a 200 reply: the place, then the candidates
Sent == rresponse.place \o rresponse.candidates

\* min(n, 3)
TierOf(n) == IF n < 3 THEN n ELSE 3

\* C6: at most 3 extraction attempts are made, and the loop stops at the first
\* attempt whose geocoding result is non-empty: when that is attempt k, the
\* extractor was called exactly k times and is never called again; a success
\* of attempt 1 leaves the tier-1 prompt as the only prompt ever built.
C6_StopsAtFirstSuccess ==
    /\ Len(prompts) <= 3
    /\ attempt = Len(prompts)
    /\ Len(ghist) <= Len(prompts)
    /\ \A k \in 1..Len(ghist) :
          Len(ghist[k]) > 0 =>
              /\ \A j \in 1..(k - 1) : Len(ghist[j]) = 0
              /\ k = Len(ghist)
              /\ Len(prompts) = k
              /\ Len(chist) = k
              /\ rpc = "responded"
              /\ k = 1 => \A i \in 1..Len(prompts) :
                              prompts[i].system.tier = 1 /\ prompts[i].user.tier = 1

\* C6 witness: the second attempt was the first to geocode anything
C6_Witness ==
    /\ Len(ghist) = 2
    /\ Len(ghist[1]) = 0
    /\ Len(ghist[2]) > 0
    /\ Len(prompts) = 2
    /\ rpc = "responded"

\* C7: attempt n is prompted with tier min(n, 3), so any attempt number >= 3
\* reuses tier 3; when attempts 1 and 2 geocode nothing and attempt 3 geocodes
\* valid places, the tiers used are 1, 2, 3 in that order, once each, and the
\* place and candidates returned are places geocoded by attempt 3.
C7_TiersInOrder ==
    /\ \A i \in 1..Len(prompts) :
          prompts[i].system.tier = TierOf(i) /\ prompts[i].user.tier = TierOf(i)
    /\ \A n \in 1..6 :
          /\ getSystemPromptForAttempt(n, <<>>).tier = TierOf(n)
          /\ getUserPromptForAttempt(<<>>, n, <<>>).tier = TierOf(n)
    /\ ( /\ Len(ghist) = 3
         /\ Len(ghist[1]) = 0
         /\ Len(ghist[2]) = 0
         /\ Len(ghist[3]) > 0
         /\ \A i \in 1..Len(ghist[3]) : ~ghist[3][i].lat.nan /\ ~ghist[3][i].lon.nan ) =>
            /\ Len(prompts) = 3
            /\ rresponse.status = 200
            /\ Len(rresponse.place) = 1
            /\ \A i \in 1..Len(Sent) : \E j \in 1..Len(ghist[3]) : Sent[i] = ghist[3][j]

\* C7 witness: two empty attempts, then a third whose places were returned
C7_Witness ==
    /\ Len(ghist) = 3
    /\ Len(ghist[1]) = 0
    /\ Len(ghist[2]) = 0
    /\ Len(ghist[3]) >= 2
    /\ rresponse.status = 200
    /\ Len(rresponse.candidates) >= 1
    /\ prompts[3].system.tier = 3

\* the names of the candidates of every attempt
NamesTried == UNION {{chist[k][i].name : i \in 1..Len(chist[k])} : k \in 1..Len(chist)}

\* C8: the reply is 404 iff all 3 attempts were made and each geocoded zero
\* places; the 404 then lists every candidate name tried, each exactly once.
C8_NotFoundIff ==
    rpc = "responded" =>
        /\ (rresponse.status = 404) <=>
              /\ Len(chist) = 3
              /\ Len(ghist) = 3
              /\ \A k \in 1..3 : Len(ghist[k]) = 0
        /\ rresponse.status = 404 =>
              LET sent == rresponse.attemptedLocations
              IN  /\ \A i, j \in 1..Len(sent) : i # j => sent[i] # sent[j]
                  /\ {sent[i] : i \in 1..Len(sent)} = NamesTried

\* C8 witness: a 404 whose list of names lost duplicates and kept two names
C8_Witness ==
    /\ rresponse.status = 404
    /\ Len(rresponse.attemptedLocations) >= 2
    /\ Len(rresponse.attemptedLocations) < Len(attemptedLocations)

\* the text of a coordinate at 3 decimals: its sign and its rounded magnitude
Rounded3(x) == <<x.v < 0, ((IF x.v < 0 THEN -x.v ELSE x.v) + 5) \div 10>>

C10_PlaceHasTopConfidence ==
    rresponse.status = 200 =>
        \A i \in 1..Len(rresponse.candidates) :
            rresponse.place[1].confidence >= rresponse.candidates[i].confidence

\* C10 witness: a secondary match was geocoded before a primary one, and the
\* reply carries candidates of both confidences
C10_Witness ==
    /\ rresponse.status = 200
    /\ \E i, j \in 1..Len(results) :
          i < j /\ results[i].confidence = 6 /\ results[j].confidence = 9
    /\ \E i \in 1..Len(rresponse.candidates) : rresponse.candidates[i].confidence = 9
    /\ \E i \in 1..Len(rresponse.candidates) : rresponse.candidates[i].confidence = 6

\* two places whose coordinates have the same text at 3 decimals
SameKey(p, q) ==
    /\ ~p.lat.nan /\ ~p.lon.nan /\ ~q.lat.nan /\ ~q.lon.nan
    /\ Rounded3(p.lat) = Rounded3(q.lat)
    /\ Rounded3(p.lon) = Rounded3(q.lon)

\* C11: when geocoded matches of one call share a 3-decimal key and differ in
\* confidence, the place the reply carries at that key has the higher
\* confidence, whichever of them was produced first.
C11_DuplicateKeepsHigherConfidence ==
    rresponse.status = 200 =>
        \A i \in 1..Len(results) : \A j \in 1..Len(Sent) :
            SameKey(results[i], Sent[j]) => Sent[j].confidence >= results[i].confidence

\* the first lexeme of the query that is a word
FirstToken(query) ==
    LET words == SelectSeq(query, LAMBDA x : ~IsDelimiter(x))
    IN  IF words = <<>> THEN <<>> ELSE <<words[1]>>

\* the attempt whose candidates are being geocoded has not ended the request
StillGeocoding(k) == (k = Len(chist) /\ Len(ghist) < k) => rpc = "geocoding"

\* C12, as stated: an attempt whose extractor result held no usable candidates
\* geocodes exactly one candidate, without hints, named by the first
\* whitespace/comma-delimited token of the query; the name is among the
\* attempted names and the request goes on.
C12_FallbackIsFirstToken ==
    \A k \in 1..Len(uhist) :
        ~uhist[k] =>
            /\ chist[k] = <<[name |-> FirstToken(rbody.query), admin1 |-> <<>>,
                             country |-> <<>>]>>
            /\ \E i \in 1..Len(attemptedLocations) :
                  attemptedLocations[i] = FirstToken(rbody.query)
            /\ StillGeocoding(k)

\* the text before the query's first delimiter, or the whole query when the
\* query starts with a delimiter
TokenOrQuery(query) == IF IsDelimiter(query[1]) THEN query ELSE <<query[1]>>

\* C12, amended: the one candidate is named by the text before the query's first
\* whitespace/comma delimiter, and by the whole raw query when the query starts
\* with a delimiter.
C12_FallbackIsTokenOrQuery ==
    \A k \in 1..Len(uhist) :
        ~uhist[k] =>
            /\ chist[k] = <<[name |-> TokenOrQuery(rbody.query), admin1 |-> <<>>,
                             country |-> <<>>]>>
            /\ \E i \in 1..Len(attemptedLocations) :
                  attemptedLocations[i] = TokenOrQuery(rbody.query)
            /\ StillGeocoding(k)

\* C12 witness: two attempts fell back, for a query that starts with a
\* delimiter, and the second one's candidate was geocoded
C12_Witness ==
    /\ Len(uhist) = 2
    /\ ~uhist[1]
    /\ ~uhist[2]
    /\ IsDelimiter(rbody.query[1])
    /\ Len(chist[2]) = 1
    /\ rresponse.status = 200

\* C13: an extractor call that raises is handled as an attempt without
\* candidates: the request never ends on it, and no request that reached the
\* extractor is answered 500.
C13_ExtractorFailureIsZeroCandidates ==
    rpc = "responded" =>
        /\ Len(chist) = Len(prompts)
        /\ Len(prompts) > 0 => rresponse.status # 500

\* every place of rs with numeric coordinates has its key among the places of gs
AllKeysIn(rs, gs) ==
    \A i \in 1..Len(rs) :
        \/ rs[i].lat.nan
        \/ rs[i].lon.nan
        \/ \E j \in 1..Len(gs) : SameKey(rs[i], gs[j])

\* one lookup of geocodeCandidates: the places gathered so far stay, a lookup
\* that raised or was answered not-OK adds nothing, any other adds the current
\* candidate's matches; the next candidate's lookup follows, and after the last
\* one everything gathered reaches the attempt's result, without a 500
LookupStep ==
    rpc = "geocoding" =>
        /\ \/ results' = results
           \/ /\ ~LookupFails
              /\ ~LookupNotOk
              /\ \E body \in LookupBodies :
                    results' = results \o PlacesOf(candidates[cidx], body)
        /\ candidates' = candidates
        /\ IF cidx < Len(candidates)
           THEN /\ cidx' = cidx + 1
                /\ rpc' = "geocoding"
                /\ ghist' = ghist
           ELSE /\ Len(ghist') = Len(ghist) + 1
                /\ AllKeysIn(results', ghist'[Len(ghist')])
                /\ rpc' = "responded" => rresponse'.status \in {200, 400, 404}
                /\ rresponse'.status = 404 =>
                      /\ results' = <<>>
                      /\ \A k \in 1..Len(ghist') : ghist'[k] = <<>>

\* C14: within an attempt a lookup that fails or finds nothing adds no place and
\* ends nothing: the candidates are looked up one after the other, the matches
\* of the others reach the attempt's result; a 404 is sent only when no
\* candidate of any attempt added a place.
C14_LookupFailureIsIsolated == [][LookupStep]_vars

\* C14 witness: of two candidates without hints one added nothing, as no answer
\* with rows leaves such a candidate without places, and the reply carries the
\* three places of the other
C14_Witness ==
    /\ Len(candidates) = 2
    /\ candidates[1].admin1 = <<>> /\ candidates[1].country = <<>>
    /\ candidates[2].admin1 = <<>> /\ candidates[2].country = <<>>
    /\ Len(results) = 3
    /\ rresponse.status = 200
    /\ Len(rresponse.candidates) = 2

\* C15: a request without a query, with a query that is no string, or with the
\* empty query is answered 400 and nothing else is done for it: no prompt is
\* built, no extractor call and no lookup is made, no attempt is counted.
C15_InvalidQueryRejectedBeforeIO ==
    ( \/ rbody.kind \in {"missing", "number"}
      \/ rbody.kind = "string" /\ rbody.query = <<>> ) =>
        /\ rpc \in {"received", "responded"}
        /\ rpc = "responded" => rresponse.status = 400
        /\ attempt = 0
        /\ prompts = <<>>
        /\ chist = <<>>
        /\ uhist = <<>>
        /\ ghist = <<>>
        /\ cidx = 0

\* C15 witness: the empty query was answered 400
C15_Witness ==
    /\ rbody = [kind |-> "string", query |-> <<>>]
    /\ rpc = "responded"
    /\ rresponse.status = 400

\* the places of rs with confidence c, in the order of rs
WithConfidence(rs, c) == SelectSeq(rs, LAMBDA r : r.confidence = c)

\* C20: a 200 reply carries the deduplicated places by confidence descending,
\* places of equal confidence in the order geocoding produced them: the place is
\* the first, the candidates are the next ones, at most 4.
C20_StableOrderAtMostFive ==
    rresponse.status = 200 =>
        LET found == ghist[Len(ghist)]
            ordered == WithConfidence(found, 9) \o WithConfidence(found, 6)
            kept == IF Len(ordered) < 5 THEN Len(ordered) ELSE 5
        IN  /\ Len(ordered) = Len(found)
            /\ Len(rresponse.place) = 1
            /\ Len(rresponse.candidates) <= 4
            /\ Sent = SubSeq(ordered, 1, kept)

\* C20 witness: six distinct places, a secondary one found before a primary
\* one, and a reply of five
C20_Witness ==
    /\ rresponse.status = 200
    /\ Len(ghist[Len(ghist)]) = 6
    /\ Len(rresponse.candidates) = 4
    /\ \E i, j \in 1..6 :
          /\ i < j
          /\ ghist[Len(ghist)][i].confidence = 6
          /\ ghist[Len(ghist)][j].confidence = 9
    /\ rresponse.candidates[2].confidence = 6
    /\ rresponse.candidates[3].confidence = 6

----------------------------------------------------------------------------
(* Properties of the outfit route *)

\* C16: generateOutfitItems is pure: calls with the same day and persona return
\* the same items in the same order, every call returns what a call on the
\* untouched tables returns, the band table (item arrays included) and the
\* persona table stay as the module defined them, and the day is left as the
\* request held it.
C16_RuleEngineIsPure ==
    /\ temperatureBands = BandTable
    /\ personaAdjustments = AdjustmentTable
    /\ \A i, j \in 1..Len(ocalls) :
          (ocalls[i].day = ocalls[j].day /\ ocalls[i].persona = ocalls[j].persona) =>
              ocalls[i].items = ocalls[j].items
    /\ \A i \in 1..Len(ocalls) :
          /\ ocalls[i].items = generateOutfitItems(BandTable, AdjustmentTable,
                                                   ocalls[i].day, ocalls[i].persona)
          /\ ocalls[i].day = obody.days[i]

\* C16 witness: two calls with the same day, which has additional items, and a
\* persona that replaces one of the items
C16_Witness ==
    /\ Len(ocalls) = 2
    /\ ocalls[1].day = ocalls[2].day
    /\ Len(ocalls[1].items) > Len(ocalls[1].base)
    /\ \E k \in 1..Len(ocalls[1].base) : ocalls[1].items[k] # ocalls[1].base[k]
    /\ opc = "responded"

\* the band of the ascending list 40, 55, 72, 84, 200 a high falls in
ExpectedBand(h) ==
    IF h <= 40 THEN 1 ELSE IF h <= 55 THEN 2 ELSE IF h <= 72 THEN 3
    ELSE IF h <= 84 THEN 4 ELSE 5

\* C17: for a high from -50 to 150 the band selected is the first of 40, 55, 72,
\* 84, 200 whose max is at least the high, it is the only one selected, and the
\* base items returned are that band's, a non-empty list.
C17_EveryHighHasOneBand ==
    \A i \in 1..Len(ocalls) :
        LET h == ocalls[i].day.highF
        IN  (h >= -50 /\ h <= 150) =>
                /\ FindBand(temperatureBands, h) = ExpectedBand(h)
                /\ \A j \in 1..(ExpectedBand(h) - 1) : BandTable[j].max < h
                /\ BandTable[ExpectedBand(h)].max >= h
                /\ ocalls[i].base = BandTable[ExpectedBand(h)].items
                /\ Len(ocalls[i].base) > 0

\* C17 witness: a high of 84, the last of its band
C17_Witness ==
    /\ Len(ocalls) = 1
    /\ ocalls[1].day.highF = 84
    /\ ocalls[1].base = <<"breathable tee", "light pants or shorts", "comfortable shoes">>

\* the items of a group when its threshold is met
Group(met, items) == IF met THEN items ELSE <<>>

\* C18: without a persona the items are the base items of the band, then the
\* groups whose threshold is met, in the order of the checks: precipChance >= 40,
\* windMph >= 18, uvIndex >= 7, lowF <= 38, lowF <= 50 and highF >= 65; the two
\* scenario days get the lists the scenarios name.
C18_BaseThenAddOns ==
    \A i \in 1..Len(ocalls) :
        ocalls[i].persona = "" =>
            LET d == ocalls[i].day
            IN  /\ ocalls[i].items =
                      ocalls[i].base
                      \o Group(d.precipChance >= 40,
                               <<"waterproof shell", "water-resistant shoes">>)
                      \o Group(d.windMph >= 18, <<"windbreaker">>)
                      \o Group(d.uvIndex >= 7, <<"sun hat", "sunglasses", "sunscreen">>)
                      \o Group(d.lowF <= 38, <<"gloves", "warm scarf">>)
                      \o Group(d.lowF <= 50 /\ d.highF >= 65, <<"packable layer">>)
                /\ d = Day("d1", 30, 10, 10, 5, 2) =>
                      ocalls[i].items = <<"insulated coat", "thermal base layer", "beanie",
                                          "warm socks", "insulated boots", "gloves",
                                          "warm scarf">>
                /\ d = Day("d2", 78, 60, 60, 20, 8) =>
                      ocalls[i].items = <<"breathable tee", "light pants or shorts",
                                          "comfortable shoes", "waterproof shell",
                                          "water-resistant shoes", "windbreaker", "sun hat",
                                          "sunglasses", "sunscreen">>

\* C18 witness: no persona, and a day that meets every threshold exactly
C18_Witness ==
    /\ Len(ocalls) = 1
    /\ ocalls[1].persona = ""
    /\ ocalls[1].day = Day("d4", 65, 38, 40, 18, 7)
    /\ Len(ocalls[1].items) = 12

\* C19: a valid request is answered 200 with one entry per day whose items are
\* what the rule engine returned for that day, whatever generateNotes returned:
\* its notes, fewer or more than the days, or the generic ones after a failure,
\* reach the notes fields only.
C19_NotesNeverChangeItems ==
    /\ opc \in {"notes", "responded"} /\ obody.kind = "valid" =>
          /\ Len(outfitDays) = Len(obody.days)
          /\ \A i \in 1..Len(outfitDays) : outfitDays[i].items = ocalls[i].items
    /\ opc = "responded" /\ obody.kind = "valid" =>
          /\ oresponse.status = 200
          /\ Len(oresponse.outfits) = Len(obody.days)
          /\ \A i \in 1..Len(oresponse.outfits) :
                /\ oresponse.outfits[i].date = obody.days[i].date
                /\ oresponse.outfits[i].outfit = ocalls[i].items
                /\ oresponse.outfits[i].notes =
                      IF i <= Len(onotes.notes) /\ onotes.notes[i] # ""
                      THEN <<onotes.notes[i]>>
                      ELSE <<>>

\* C19 witness: two days, one note returned, and a reply whose second day has
\* its items and no note
C19_Witness ==
    /\ opc = "responded"
    /\ Len(obody.days) = 2
    /\ ~onotes.failed
    /\ Len(onotes.notes) = 1
    /\ oresponse.status = 200
    /\ Len(oresponse.outfits[2].outfit) > 0
    /\ oresponse.outfits[2].notes = <<>>

----------------------------------------------------------------------------
(* Properties of app/api/resolve/route.ts, continued *)

RECURSIVE NamesThrough(_)
\* the candidate names of attempts 1..k, in the order the extractor gave them
NamesThrough(k) ==
    IF k = 0 THEN <<>>
    ELSE NamesThrough(k - 1) \o [i \in 1..Len(chist[k]) |-> chist[k][i].name]

\* C21: attemptedLocations holds the names of the candidates (extracted or
\* fallback) of every attempt whose candidates exist, in order: they are in the
\* list while the attempt's lookups run and stay whatever the lookups find; the
\* prompts of attempt n list the names of attempts 1..n-1 and no other.
C21_AttemptedNamesBeforeGeocoding ==
    /\ Len(prompts) = attempt
    /\ Len(chist) \in {attempt - 1, attempt}
    /\ rpc = "geocoding" => Len(chist) = attempt
    /\ rpc = "extracting" => Len(chist) = attempt - 1
    /\ attemptedLocations = NamesThrough(Len(chist))
    /\ \A n \in 1..Len(prompts) :
          /\ prompts[n].system.failed = NamesThrough(n - 1)
          /\ prompts[n].user.failed = NamesThrough(n - 1)

\* C21 witness: the third attempt succeeded; its prompts list the names of the
\* two attempts before it, and the list holds the third attempt's names as well
C21_Witness ==
    /\ rpc = "responded"
    /\ rresponse.status = 200
    /\ Len(prompts) = 3
    /\ Len(chist[1]) = 2
    /\ Len(prompts[3].system.failed) >= 3
    /\ Len(attemptedLocations) > Len(prompts[3].system.failed)

\* the candidate carries a region or a country hint
Hinted(c) == c.country # <<>> \/ c.admin1 # <<>>

\* the first of the rows at 0.9 and up to 2 more at 0.6, no row filtered out
UnfilteredPlaces(body) ==
    [i \in 1..(IF Len(body) < 3 THEN Len(body) ELSE 3) |->
        [name |-> body[i].name, admin1 |-> body[i].admin1, country |-> body[i].country,
         lat |-> Coerce(body[i].latitude), lon |-> Coerce(body[i].longitude),
         confidence |-> IF i = 1 THEN 9 ELSE 6]]

\* the lookup of a hinted candidate answered with rows none of which passes the
\* hint filter adds the unfiltered rows' places
FilteredOutStep ==
    \A body \in LookupBodies :
        (/\ rpc = "geocoding"
         /\ body # <<>>
         /\ Hinted(candidates[cidx])
         /\ FilterByHints(candidates[cidx], body) = <<>>
         /\ AfterLookup(PlacesOf(candidates[cidx], body)))
        => /\ results' = results \o UnfilteredPlaces(body)
           /\ Len(results') > Len(results)

\* C22: when the hint filter eliminates every row of a non-empty lookup answer,
\* the candidate still adds places, those of the unfiltered rows (the first as
\* primary, up to 2 more as secondary).
C22_FilterFallsBackToUnfiltered == [][FilteredOutStep]_vars

\* the row the place was made of
MadeOf(place, row) ==
    /\ place.name = row.name
    /\ place.admin1 = row.admin1
    /\ place.country = row.country
    /\ place.lat = Coerce(row.latitude)
    /\ place.lon = Coerce(row.longitude)

\* what the lookup of the current candidate adds to results: nothing, or the
\* places of its first 3 surviving rows in the geocoder's order, the first at
\* 0.9 and the others at 0.6
ContributionStep ==
    rpc = "geocoding" =>
        LET k == Len(results') - Len(results)
            added == SubSeq(results', Len(results) + 1, Len(results'))
        IN  /\ k \in 0..3
            /\ SubSeq(results', 1, Len(results)) = results
            /\ \A i \in 1..k : added[i].confidence = (IF i = 1 THEN 9 ELSE 6)
            /\ \/ k = 0
               \/ \E body \in LookupBodies :
                    LET surviving == FilterByHints(candidates[cidx], body)
                    IN  /\ Len(surviving) >= k
                        /\ Len(surviving) > k => k = 3
                        /\ \A i \in 1..k : MadeOf(added[i], surviving[i])
            /\ rpc' = "responded" =>
                  \A i \in 1..Len(geocoded') : geocoded'[i].confidence \in {9, 6}

\* C23: a candidate with surviving matches adds the first at 0.9 and at most
\* the next 2 at 0.6, in the geocoder's order, and nothing else: at most 3
\* places and exactly one 0.9 place for a candidate that adds any, and no
\* confidence other than 0.9 and 0.6.
C23_PrimaryThenTwoSecondaries == [][ContributionStep]_vars

\* C23 witness: the first of two candidates had four surviving rows and added
\* three places, at 0.9, 0.6 and 0.6
C23_Witness ==
    /\ rpc = "geocoding"
    /\ cidx = 2
    /\ candidates[1].country = <<>>
    /\ Len(results) = 3
    /\ results[1].name = <<"paris">> /\ results[1].confidence = 9
    /\ results[2].name = <<"paris">> /\ results[2].confidence = 6
    /\ results[3].name = <<"berlin">> /\ results[3].confidence = 6

\* the place has numeric coordinates
HasCoordinates(p) == ~p.lat.nan /\ ~p.lon.nan

\* C24: a match whose latitude or longitude is missing or not a number is
\* dropped on its own: an attempt's result holds no such place, and an attempt
\* that gathered a place with coordinates is answered 200 with the places that
\* have coordinates.
C24_BadCoordinatesDropOneMatch ==
    /\ \A k \in 1..Len(ghist) : \A i \in 1..Len(ghist[k]) : HasCoordinates(ghist[k][i])
    /\ (/\ rpc = "responded"
        /\ Len(ghist) >= 1
        /\ \E i \in 1..Len(results) : HasCoordinates(results[i]))
       => /\ rresponse.status = 200
          /\ \A i \in 1..Len(Sent) : HasCoordinates(Sent[i])

\* the first place of results is the primary match of the candidate whose
\* lookup was the first to add any place; it stays first in results, and a 200
\* has it as `place`, first of the attempt's deduplicated and sorted places
FirstContributionStep ==
    rpc = "geocoding" =>
        /\ (results = <<>> /\ results' # <<>>) =>
              /\ results'[1].confidence = 9
              /\ \E body \in LookupBodies :
                    LET surviving == FilterByHints(candidates[cidx], body)
                    IN  /\ surviving # <<>>
                        /\ MadeOf(results'[1], surviving[1])
        /\ results # <<>> => results'[1] = results[1]
        /\ (rpc' = "responded" /\ rresponse'.status = 200) =>
              /\ results' # <<>>
              /\ ghist'[Len(ghist')][1] = results'[1]
              /\ geocoded'[1] = results'[1]
              /\ rresponse'.place = <<results'[1]>>

\* C27: the place of a 200 is the primary (first surviving, 0.9) match of the
\* earliest candidate of the successful attempt that had a surviving match:
\* the deduplication does not remove it and the sort moves no place ahead of it.
C27_PlaceIsEarliestPrimary == [][FirstContributionStep]_vars

\* C27 witness: a 200 whose place comes from the second candidate, the first
\* (hinted) one having no surviving match; a later place shares no rank with it
C27_Witness ==
    /\ rpc = "responded"
    /\ rresponse.status = 200
    /\ Len(candidates) = 2
    /\ candidates[1].name = <<"new york">>
    /\ results[1].name = <<"paris">>
    /\ rresponse.place[1].name = <<"paris">>
    /\ Len(rresponse.candidates) = 2

\* C28: a 400 answers only a request whose body failed the validation, before
\* any extractor or geocoder call; a request that was accepted ends in 200,
\* 404 or 500 whatever those calls return.
C28_BadRequestOnlyForRequestBody ==
    rpc = "responded" =>
        /\ rresponse.status = 400 =>
              /\ rbody.kind # "string" \/ rbody.query = <<>>
              /\ prompts = <<>>
              /\ chist = <<>>
        /\ prompts # <<>> => rresponse.status \in {200, 404, 500}

----------------------------------------------------------------------------
(* Properties of fetchWithRetry, continued *)

\* the attempts that ended in a backoff sleep
Sleeps == SelectSeq(flog, LAMBDA e : e.decision = "sleep")

\* the attempts, the sleeps and the exit of a call with maxRetries >= 0; the
\* statements after the loop run for a negative maxRetries only
WithinRetryBudget ==
    /\ fopts.maxRetries >= 0 =>
          /\ Len(flog) <= fopts.maxRetries + 1
          /\ Len(Sleeps) <= fopts.maxRetries
          /\ fattempt <= fopts.maxRetries
          /\ fpc # "afterloop"
          /\ FetchEnded =>
                /\ Len(flog) >= 1
                /\ flog[Len(flog)].decision \in {"return", "throw"}
                /\ flog[Len(flog)].attempt = fattempt
                /\ Len(Sleeps) = Len(flog) - 1
    /\ (fpc = "afterloop" \/ (FetchEnded /\ flog = <<>>)) => fopts.maxRetries < 0

----------------------------------------------------------------------------
(* Properties of app/api/generate-outfits/route.ts, continued *)

KnownPersonas == {"minimal", "outdoorsy", "street", "business"}

\* the item is a key of the persona's replacements
IsKey(persona, item) == \E pair \in AdjustmentTable[persona] : pair[1] = item

\* the persona's replacement for a key
ValueOf(persona, item) ==
    (CHOOSE pair \in AdjustmentTable[persona] : pair[1] = item)[2]

\* C25: for a known persona the items of a call are the persona-less items of
\* the same day with every key of the persona's table replaced in place by its
\* value and every other item as it was, the length the same; without a
\* persona, or with one that has no table, the list is the persona-less one.
C25_PersonaReplacesInPlace ==
    \A k \in 1..Len(ocalls) :
        LET call == ocalls[k]
            plain == generateOutfitItems(BandTable, AdjustmentTable, call.day, "")
        IN  /\ Len(call.items) = Len(plain)
            /\ \A j \in 1..Len(plain) :
                  IF call.persona \in KnownPersonas /\ IsKey(call.persona, plain[j])
                  THEN /\ call.items[j] = ValueOf(call.persona, plain[j])
                       /\ call.items[j] # plain[j]
                  ELSE call.items[j] = plain[j]
            /\ call.persona = "" => call.items = plain
            /\ generateOutfitItems(temperatureBands, personaAdjustments, call.day, "goth")
                  = plain

\* C25 witness: a business call on a warm wet day: two items replaced in place
\* (the second and the third), the first and the additional ones as they were
C25_Witness ==
    /\ Len(ocalls) >= 1
    /\ ocalls[1].persona = "business"
    /\ ocalls[1].day.highF = 78
    /\ ocalls[1].items[1] = "breathable tee"
    /\ ocalls[1].items[2] = "chinos"
    /\ ocalls[1].items[3] = "loafers or oxfords"
    /\ ocalls[1].items[4] = "waterproof shell"
    /\ Len(ocalls[1].items) = 9

\* no item occurs twice in the list
NoDuplicate(items) == \A i, j \in 1..Len(items) : i # j => items[i] # items[j]

\* C30: whatever the day and the persona (none, minimal, outdoorsy, street,
\* business), the list generateOutfitItems returned holds no item twice.
C30_NoDuplicateItem ==
    \A k \in 1..Len(ocalls) : NoDuplicate(ocalls[k].items)

\* C30 witness: an outdoorsy call on a day of the fourth band with every
\* additional item: the shoes were replaced next to the water-resistant shoes
C30_Witness ==
    /\ Len(ocalls) = 1
    /\ ocalls[1].persona = "outdoorsy"
    /\ ocalls[1].day.highF = 80
    /\ ocalls[1].items[3] = "trail shoes"
    /\ \E j \in 1..Len(ocalls[1].items) : ocalls[1].items[j] = "water-resistant shoes"
    /\ Len(ocalls[1].items) = 12

----------------------------------------------------------------------------
(* Properties of the client hooks *)

\* no request of the client is pending
AllSettled == \A i \in 1..Len(requests) : requests[i].pc = "done"

\* the forecast shown is the one the last call of selectCandidate received
LatestForecast ==
    LET last == requests[Len(requests)]
    IN  last.forecast \in {"days", "empty"} =>
            forecast.set /\ forecast.of = last.place

\* the outfits shown are the ones the last call of selectCandidate received
LatestOutfits ==
    LET last == requests[Len(requests)]
    IN  last.outfits = "outfits" =>
            generatedOutfits.set /\ generatedOutfits.of = last.place

\* C29: a candidate selected while the forecast request of another is in
\* flight: whatever the order of the responses, once every request has settled
\* the forecast and the outfits shown are those of the candidate selected
\* last, and loading is true while a forecast request is in flight.
C29_LatestSelectionWins ==
    /\ (\E i \in 1..Len(requests) : requests[i].pc = "forecast") => loadingForecast
    /\ (Len(requests) >= 2 /\ AllSettled) => LatestForecast /\ LatestOutfits

====
